---- MODULE Spec2Model ----
(***************************************************************************)
(* Model of gunpowder's DownSample batch filter (nodes/downsample.py):     *)
(* one traversal of the prepare / upstream / process protocol over a       *)
(* Request (volume type -> Roi) and a Batch (volume type -> Volume).       *)
(*                                                                         *)
(* Coordinate and Roi live in gunpowder.coordinate / gunpowder.roi, which  *)
(* are not part of the sources at hand; their algebra follows sections 3   *)
(* and 4.1 of the specification.  Arrays are numpy arrays: an array that   *)
(* was cut out of a source grid by basic slicing is the product of one     *)
(* index list per axis, so an array is kept as the type of the source it   *)
(* was cut from plus, per axis, the absolute source positions it holds.    *)
(***************************************************************************)
EXTENDS Integers, Sequences, FiniteSets, TLC

VARIABLES
    volume_factors,  \* self.volume_factors, as the sequence of its items()
    upstream_factors, \* volume_factors of a second DownSample node upstream
    orig_request,    \* the request of the downstream consumer
    request,         \* the copy handed to prepare and then upstream
    supplied,        \* the batch as upstream returned it
    batch,           \* the batch handed to process (mutated in place)
    pc,              \* "new", "failed" (construction), "start", "prepared",
                     \* "prepared2", "supplied", "done"
    err,             \* outcome of __init__ / process: None or the exception
    outputs,         \* self.outputs
    second,          \* a second traversal of the same node instance: its
                     \* request, batch and position
    \* tensorflow Train node (tensorflow/nodes/train.py)
    summary,         \* self.summary: None, a tensor name, or a dict
                     \* name -> (tensor, frequency)
    log_every,       \* self.log_every
    save_every,      \* self.save_every
    optimizer_func,  \* self.optimizer_func is not None (a custom optimizer)
    checkpoint,      \* tf.train.latest_checkpoint(checkpoint_dir)
    session,         \* values of the variables in self.session
    current_step,    \* self.current_step
    to_compute,      \* keys of to_compute in the last train_step
    written,         \* keys passed to summary_saver.add_summary in the last
                     \* train_step
    saved,           \* iteration numbers in the names of the checkpoints
                     \* written by full_saver.save, oldest first
    batch_iteration, \* batch.iteration of the last train_step
    start_log,       \* session operations run by start, in order
    calls,           \* number of train_step calls so far
    tpc,             \* "idle", "new", "started", "failed"
    terr             \* exception raised by start / the last train_step

nodeVars == <<volume_factors, upstream_factors, orig_request, request,
              supplied, batch, pc, err, outputs, second>>

trainVars == <<summary, log_every, save_every, optimizer_func, checkpoint,
               session, current_step, to_compute, written, saved,
               batch_iteration, start_log, calls, tpc, terr>>

vars == <<nodeVars, trainVars>>

(***************************************************************************)
(* Bounds                                                                  *)
(***************************************************************************)
MaxEntries == 2   \* entries of volume_factors
MaxPad == 1       \* cells upstream may add around a requested ROI
MaxOff == 2       \* |offset| of the ROIs fed to the scaling function
MaxShape == 3     \* shape of the ROIs fed to the scaling function
MaxFactor == 3    \* factors fed to the scaling function

VolumeTypes == {"A", "B", "C"}

(***************************************************************************)
(* Maps (python dicts keyed by volume type)                                *)
(***************************************************************************)
EmptyMap == [t \in {} |-> 0]

Put(m, k, v) == [x \in (DOMAIN m) \cup {k} |-> IF x = k THEN v ELSE m[x]]

Del(m, k) == [x \in (DOMAIN m) \ {k} |-> m[x]]

(***************************************************************************)
(* Coordinate: an n-dimensional integer vector                             *)
(***************************************************************************)
CAdd(a, b) == [d \in DOMAIN a |-> a[d] + b[d]]

CSub(a, b) == [d \in DOMAIN a |-> a[d] - b[d]]

\* a factor is a number (tuple = FALSE, k = <<n>>) or a tuple of numbers
FactorAt(f, d) == IF f.tuple THEN f.k[d] ELSE f.k[1]

CMul(a, f) == [d \in DOMAIN a |-> a[d] * FactorAt(f, d)]

\* shape/2 in integer arithmetic
CHalf(a) == [d \in DOMAIN a |-> a[d] \div 2]

(***************************************************************************)
(* Roi: offset and shape                                                   *)
(***************************************************************************)
Roi(offset, shape) == [offset |-> offset, shape |-> shape]

Dims(roi) == Len(roi.offset)

GetBegin(roi) == roi.offset

GetEnd(roi) == CAdd(roi.offset, roi.shape)

GetShape(roi) == roi.shape

GetCenter(roi) == CAdd(roi.offset, CHalf(roi.shape))

RoiMul(roi, f) == Roi(CMul(roi.offset, f), CMul(roi.shape, f))

RoiSub(roi, c) == Roi(CSub(roi.offset, c), roi.shape)

IsEmpty(roi) == \E d \in DOMAIN roi.shape : roi.shape[d] = 0

\* every coordinate of b lies within a
Contains(a, b) ==
    IsEmpty(b) \/ \A d \in DOMAIN a.offset :
                     /\ a.offset[d] <= b.offset[d]
                     /\ b.offset[d] + b.shape[d] <= a.offset[d] + a.shape[d]

Min(x, y) == IF x <= y THEN x ELSE y

Max(x, y) == IF x >= y THEN x ELSE y

\* the smallest box containing a and b
Union(a, b) ==
    LET begin == [d \in DOMAIN a.offset |-> Min(a.offset[d], b.offset[d])]
        end == [d \in DOMAIN a.offset |-> Max(GetEnd(a)[d], GetEnd(b)[d])]
    IN Roi(begin, CSub(end, begin))

\* one slice(start, stop) per dimension
GetBoundingBox(roi) ==
    [d \in DOMAIN roi.offset |->
        [start |-> roi.offset[d], stop |-> roi.offset[d] + roi.shape[d]]]

(***************************************************************************)
(* numpy arrays and basic slicing                                          *)
(***************************************************************************)
Array(src, axes) == [src |-> src, axes |-> axes]

DataShape(data) == [d \in DOMAIN data.axes |-> Len(data.axes[d])]

\* numpy's handling of a slice bound i on an axis of length n
NormIndex(i, n) ==
    IF i < 0 THEN (IF i + n < 0 THEN 0 ELSE i + n)
    ELSE IF i > n THEN n ELSE i

\* axis[start:stop]
SliceAxis(axis, start, stop) ==
    LET s == NormIndex(start, Len(axis))
        e == NormIndex(stop, Len(axis))
    IN IF e > s THEN SubSeq(axis, s + 1, e) ELSE <<>>

\* axis[::k]
StrideAxis(axis, k) ==
    [j \in 1..((Len(axis) + k - 1) \div k) |-> axis[(j - 1) * k + 1]]

\* data[bounding_box]
Index(data, box) ==
    Array(data.src,
          [d \in DOMAIN data.axes |->
              SliceAxis(data.axes[d], box[d].start, box[d].stop)])

\* data[slices], slices = (slice(None, None, k), ...)
Strided(data, steps) ==
    Array(data.src,
          [d \in DOMAIN data.axes |-> StrideAxis(data.axes[d], steps[d])])

Volume(data, roi, resolution) ==
    [data |-> data, roi |-> roi, resolution |-> resolution]

(***************************************************************************)
(* DownSample                                                              *)
(***************************************************************************)
Entry(input, f, output) == [input |-> input, f |-> f, output |-> output]

\* scaling without moving the center back
ScaleRoiUncentred(roi, f) == RoiMul(roi, f)

\* scaling that moves the center the wrong way
ScaleRoiWrongSign(roi, f) ==
    RoiSub(RoiMul(roi, f), CSub(GetCenter(roi), GetCenter(RoiMul(roi, f))))

\* DownSample.__scale_roi
ScaleRoi(roi, f) ==
    LET prev_center == GetCenter(roi)
        scaled_roi == RoiMul(roi, f)
        new_center == GetCenter(scaled_roi)
    IN RoiSub(scaled_roi, CSub(new_center, prev_center))

\* prepare that overwrites the entry of the input type instead of merging
PrepareEntryOverwrite(req, e) ==
    IF e.output \notin DOMAIN req THEN req
    ELSE Del(Put(req, e.input, ScaleRoi(req[e.output], e.f)), e.output)

\* a prepare that builds the upstream request afresh from the entry it
\* handles
PrepareEntryFresh(req, e) ==
    IF e.output \notin DOMAIN req THEN req
    ELSE Put(EmptyMap, e.input, ScaleRoi(req[e.output], e.f))

\* one iteration of the loop of DownSample.prepare
PrepareEntry(req, e) ==
    IF e.output \notin DOMAIN req THEN req
    ELSE LET request_roi == req[e.output]
             scaled_roi == ScaleRoi(request_roi, e.f)
             merged == IF e.input \in DOMAIN req
                       THEN Union(req[e.input], scaled_roi)
                       ELSE scaled_roi
         IN Del(Put(req, e.input, merged), e.output)

RECURSIVE PrepareLoop(_, _, _)
PrepareLoop(req, vf, i) ==
    IF i > Len(vf) THEN req
    ELSE PrepareLoop(PrepareEntry(req, vf[i]), vf, i + 1)

\* DownSample.prepare(request)
prepare(vf, req) == PrepareLoop(req, vf, 1)

None == [kind |-> "none", line |-> 0]

Raise(st, kind, line) == [st EXCEPT !.err = [kind |-> kind, line |-> line]]

\* the asserts of lines 79 and 113, switched off
AssertContainsOff(input_roi, roi) == TRUE

\* the asserts of lines 79 and 113
AssertContains(input_roi, roi) == Contains(input_roi, roi)

\* the assert of line 94, switched off
AssertShapeOff(data, request_roi) == TRUE

\* the assert of line 94
AssertShape(data, request_roi) == DataShape(data) = GetShape(request_roi)

\* a window taken at the absolute position of roi
WindowAbsolute(roi, input_roi) == GetBoundingBox(roi)

\* the window of the input array that holds roi (lines 82 and 117)
Window(roi, input_roi) == GetBoundingBox(RoiSub(roi, GetBegin(input_roi)))

\* the strides of lines 85-88
Slices(f, input_roi) == [d \in 1..Dims(input_roi) |-> FactorAt(f, d)]

\* lines 81-92: crop to the scaled window, then take every f-th element
Downsampled(input, scaled_roi, f) ==
    Strided(Index(input.data, Window(scaled_roi, input.roi)),
            Slices(f, input.roi))

\* an output volume that keeps the resolution of its input
OutputVolumeSameResolution(data, request_roi, input, f) ==
    Volume(data, request_roi, input.resolution)

\* lines 97-100: the output volume
OutputVolume(data, request_roi, input, f) ==
    Volume(data, request_roi, CMul(input.resolution, f))

\* one iteration of the first loop of DownSample.process
ProcessEntry(st, e, req) ==
    IF st.err # None \/ e.output \notin DOMAIN req THEN st
    ELSE IF e.input \notin DOMAIN st.batch THEN Raise(st, "KeyError", 77)
    ELSE LET request_roi == req[e.output]
             scaled_roi == ScaleRoi(request_roi, e.f)
             input == st.batch[e.input]
             data == Downsampled(input, scaled_roi, e.f)
         IN IF ~AssertContains(input.roi, scaled_roi)
            THEN Raise(st, "ContainmentViolation", 79)
            ELSE IF ~AssertShape(data, request_roi)
            THEN Raise(st, "ShapeMismatch", 94)
            ELSE [st EXCEPT !.batch =
                     Put(st.batch, e.output,
                         OutputVolume(data, request_roi, input, e.f))]

\* a restore that resets the ROI and leaves the array as it is
RestoredRoiOnly(input, request_roi) == [input EXCEPT !.roi = request_roi]

\* lines 117-119: crop the input volume in place
Restored(input, request_roi) ==
    [input EXCEPT !.data = Index(input.data, Window(request_roi, input.roi)),
                  !.roi = request_roi]

\* one iteration of the second loop of DownSample.process
RestoreEntry(st, e, req) ==
    IF st.err # None \/ e.input \notin DOMAIN st.batch THEN st
    ELSE IF e.input \notin DOMAIN req THEN Raise(st, "KeyError", 109)
    ELSE LET input == st.batch[e.input]
             request_roi == req[e.input]
         IN IF input.roi = request_roi THEN st
            ELSE IF ~AssertContains(input.roi, request_roi)
            THEN Raise(st, "ContainmentViolation", 113)
            ELSE [st EXCEPT !.batch =
                     Put(st.batch, e.input, Restored(input, request_roi))]

RECURSIVE ProcessLoop(_, _, _, _)
ProcessLoop(st, vf, req, i) ==
    IF i > Len(vf) THEN st
    ELSE ProcessLoop(ProcessEntry(st, vf[i], req), vf, req, i + 1)

RECURSIVE RestoreLoop(_, _, _, _)
RestoreLoop(st, vf, req, i) ==
    IF i > Len(vf) THEN st
    ELSE RestoreLoop(RestoreEntry(st, vf[i], req), vf, req, i + 1)

\* DownSample.process(batch, request): the batch as the call leaves it (an
\* exception leaves the in-place changes made before it) and the outcome
process(vf, b, req) ==
    RestoreLoop(ProcessLoop([batch |-> b, err |-> None], vf, req, 1),
                vf, req, 1)

(***************************************************************************)
(* Upstream provider                                                       *)
(***************************************************************************)
\* the array of a freshly read volume: every cell of roi, in order
FullData(t, roi) ==
    Array(t, [d \in DOMAIN roi.offset |->
                 [j \in 1..roi.shape[d] |-> roi.offset[d] + j - 1]])

Grow(roi, p) ==
    Roi([d \in DOMAIN roi.offset |-> roi.offset[d] - p],
        [d \in DOMAIN roi.shape |-> roi.shape[d] + 2 * p])

Isotropic(roi, r) == [d \in DOMAIN roi.offset |-> r]

BaseResolutions == {1, 4}

\* a batch with, for every requested type, a volume containing its ROI
Provide(req, pad, r) ==
    [t \in DOMAIN req |->
        Volume(FullData(t, Grow(req[t], pad)), Grow(req[t], pad),
               Isotropic(req[t], r))]

(***************************************************************************)
(* Configurations and requests                                             *)
(***************************************************************************)
Scalar(n) == [tuple |-> FALSE, k |-> <<n>>]

Tuple(k) == [tuple |-> TRUE, k |-> k]

Factors == {Scalar(2), Tuple(<<1, 2, 3>>)}

EntrySet == {Entry(i, f, o) : i \in VolumeTypes, f \in Factors, o \in VolumeTypes}

\* what DownSample.__init__ accepts: the keys of a dict are distinct, and no
\* output type is used twice
Accepted(vf) ==
    \A i, j \in DOMAIN vf :
        i # j => vf[i].input # vf[j].input /\ vf[i].output # vf[j].output

Configs ==
    {vf \in UNION {[1..n -> EntrySet] : n \in 1..MaxEntries} : Accepted(vf)}

Rois ==
    { Roi(<<0, 0, 0>>, <<4, 4, 4>>),
      Roi(<<-1, 0, 2>>, <<3, 1, 2>>),
      Roi(<<1, 1, 1>>, <<2, 2, 2>>) }

Requests == UNION {[T -> Rois] : T \in SUBSET VolumeTypes}

(***************************************************************************)
(* DownSample.__init__                                                     *)
(***************************************************************************)
\* the python type of a factor; the factors of Factors are ints and tuples
\* of ints
PyType(f) ==
    IF "py" \in DOMAIN f THEN f.py
    ELSE IF f.tuple THEN "tuple of int" ELSE "int"

\* isinstance(f, numbers.Number)
IsNumber(f) == PyType(f) \in {"int", "float"}

\* isinstance(f, tuple)
IsTuple(f) == PyType(f) \in {"tuple of int", "tuple of str"}

\* line 33: assert isinstance(f, numbers.Number) or isinstance(f, tuple)
AssertFactor(f) == IsNumber(f) \/ IsTuple(f)

RECURSIVE InitLoop(_, _, _)
InitLoop(st, vf, i) ==
    IF i > Len(vf) THEN st
    ELSE IF ~AssertFactor(vf[i].f)
    THEN [st EXCEPT !.err = [kind |-> "ConfigurationError", line |-> 33]]
    ELSE IF \E j \in DOMAIN st.outputs : st.outputs[j] = vf[i].output
    THEN [st EXCEPT !.err = [kind |-> "ConfigurationError", line |-> 34]]
    ELSE InitLoop([st EXCEPT !.outputs = Append(st.outputs, vf[i].output)],
                  vf, i + 1)

\* DownSample.__init__(volume_factors): self.outputs and the outcome
init(vf) == InitLoop([outputs |-> <<>>, err |-> None], vf, 1)

\* a traversal that has not been started
Idle ==
    [orig_request |-> EmptyMap, request |-> EmptyMap, supplied |-> EmptyMap,
     batch |-> EmptyMap, pc |-> "idle", err |-> None]

\* what a step of the first traversal leaves alone
others == <<outputs, second, trainVars>>

\* an attribute that was never assigned, a variable that was never
\* initialised
Unset == -1

NoSummary == [kind |-> "none", f |-> <<>>]

NoCheckpoint == [found |-> FALSE, iteration |-> 0, optimizer |-> FALSE]

NoSession ==
    [iteration |-> Unset, basic |-> "uninitialized",
     optimizer |-> "uninitialized"]

\* no Train node in the pipeline
TrainIdle ==
    /\ summary = NoSummary
    /\ log_every = 1
    /\ save_every = 1
    /\ optimizer_func = FALSE
    /\ checkpoint = NoCheckpoint
    /\ session = NoSession
    /\ current_step = Unset
    /\ to_compute = {}
    /\ written = {}
    /\ saved = <<>>
    /\ batch_iteration = Unset
    /\ start_log = <<>>
    /\ calls = 0
    /\ tpc = "idle"
    /\ terr = None

OthersIdle == second = Idle /\ TrainIdle

(***************************************************************************)
(* One traversal                                                           *)
(***************************************************************************)
Init ==
    /\ volume_factors \in Configs
    /\ upstream_factors = <<>>
    /\ orig_request \in Requests
    /\ request = orig_request
    /\ supplied = EmptyMap
    /\ batch = EmptyMap
    /\ pc = "start"
    /\ err = None
    /\ outputs = init(volume_factors).outputs
    /\ OthersIdle

\* BatchFilter hands prepare a copy of the request
Prepare ==
    /\ pc = "start"
    /\ request' = prepare(volume_factors, request)
    /\ pc' = "prepared"
    /\ UNCHANGED <<volume_factors, upstream_factors, orig_request, supplied,
                   batch, err>>
    /\ UNCHANGED others

Supply ==
    /\ pc = "prepared"
    /\ \E pad \in 0..MaxPad, r \in BaseResolutions :
          supplied' = Provide(request, pad, r)
    /\ batch' = supplied'
    /\ pc' = "supplied"
    /\ UNCHANGED <<volume_factors, upstream_factors, orig_request, request,
                   err>>
    /\ UNCHANGED others

\* process runs on the returned batch with the consumer's request
Process ==
    /\ pc = "supplied"
    /\ LET st == process(volume_factors, batch, orig_request)
       IN /\ batch' = st.batch
          /\ err' = st.err
    /\ pc' = "done"
    /\ UNCHANGED <<volume_factors, upstream_factors, orig_request, request,
                   supplied>>
    /\ UNCHANGED others

Next == Prepare \/ Supply \/ Process

Spec == Init /\ [][Next]_vars

(***************************************************************************)
(* Two DownSample nodes in a chain: the request passes the prepare of the  *)
(* downstream node, then the prepare of the node upstream of it            *)
(***************************************************************************)
SingleConfigs == {vf \in Configs : Len(vf) = 1}

InitChain ==
    /\ volume_factors \in SingleConfigs
    /\ upstream_factors \in SingleConfigs
    /\ orig_request \in Requests
    /\ request = orig_request
    /\ supplied = EmptyMap
    /\ batch = EmptyMap
    /\ pc = "start"
    /\ err = None
    /\ outputs = init(volume_factors).outputs
    /\ OthersIdle

PrepareUpstream ==
    /\ pc = "prepared"
    /\ request' = prepare(upstream_factors, request)
    /\ pc' = "prepared2"
    /\ UNCHANGED <<volume_factors, upstream_factors, orig_request, supplied,
                   batch, err>>
    /\ UNCHANGED others

NextChain == Prepare \/ PrepareUpstream

SpecChain == InitChain /\ [][NextChain]_vars

(***************************************************************************)
(* The scaling of __scale_roi alone, over a wide range of two-dimensional  *)
(* ROIs (negative offsets, empty and odd shapes) and factors               *)
(***************************************************************************)
WideRois ==
    {Roi(<<o1, o2>>, <<s1, s2>>) :
        o1 \in -MaxOff..MaxOff, o2 \in -MaxOff..MaxOff,
        s1 \in 0..MaxShape, s2 \in 0..MaxShape}

WideFactors ==
    {Scalar(n) : n \in 1..MaxFactor}
        \cup {Tuple(<<m, n>>) : m \in 1..MaxFactor, n \in 1..MaxFactor}

InitScale ==
    /\ \E f \in WideFactors : volume_factors = <<Entry("A", f, "B")>>
    /\ upstream_factors = <<>>
    /\ \E r \in WideRois : orig_request = [t \in {"B"} |-> r]
    /\ request = orig_request
    /\ supplied = EmptyMap
    /\ batch = EmptyMap
    /\ pc = "start"
    /\ err = None
    /\ outputs = init(volume_factors).outputs
    /\ OthersIdle

NextScale == Prepare

SpecScale == InitScale /\ [][NextScale]_vars

(***************************************************************************)
(* An upstream provider that breaks its contract: one volume has a ROI     *)
(* that misses the first cell of every axis of what was asked for          *)
(* ("shrunk"), or its array misses the last cell of every axis of its ROI  *)
(* ("short")                                                               *)
(***************************************************************************)
Shrunk(roi) ==
    Roi([d \in DOMAIN roi.offset |-> roi.offset[d] + 1],
        [d \in DOMAIN roi.shape |-> roi.shape[d] - 1])

Short(data) ==
    Array(data.src,
          [d \in DOMAIN data.axes |->
              SubSeq(data.axes[d], 1, Len(data.axes[d]) - 1)])

Faulty(vol, fault) ==
    IF fault = "shrunk"
    THEN Volume(FullData(vol.data.src, Shrunk(vol.roi)), Shrunk(vol.roi),
                vol.resolution)
    ELSE Volume(Short(vol.data), vol.roi, vol.resolution)

SupplyFaulty ==
    /\ pc = "prepared"
    /\ \E t \in DOMAIN request, fault \in {"shrunk", "short"} :
          LET good == Provide(request, 0, 1)
          IN supplied' = [good EXCEPT ![t] = Faulty(good[t], fault)]
    /\ batch' = supplied'
    /\ pc' = "supplied"
    /\ UNCHANGED <<volume_factors, upstream_factors, orig_request, request,
                   err>>
    /\ UNCHANGED others

NextFaulty == Prepare \/ Supply \/ SupplyFaulty \/ Process

SpecFaulty == Init /\ [][NextFaulty]_vars

(***************************************************************************)
(* Construction: DownSample(volume_factors) over configurations that need  *)
(* not be acceptable (an output type in two entries, factors of any python *)
(* type)                                                                   *)
(***************************************************************************)
\* factors by python type: 2, 2.0, (1, 2, 3), ('a', 'b', 'c'), [1, 2, 3],
\* '2', None
PyTypes ==
    {"int", "float", "tuple of int", "tuple of str", "list", "str",
     "NoneType"}

RawFactors == {[py |-> t] : t \in PyTypes}

RawEntrySet ==
    {Entry(i, f, o) : i \in VolumeTypes, f \in RawFactors, o \in VolumeTypes}

\* a dict has one entry per key; the outputs of two entries may be the same
RawConfigs ==
    {vf \in UNION {[1..n -> RawEntrySet] : n \in 1..MaxEntries} :
        \A i, j \in DOMAIN vf : i # j => vf[i].input # vf[j].input}

InitCtor ==
    /\ volume_factors \in RawConfigs
    /\ upstream_factors = <<>>
    /\ orig_request = EmptyMap
    /\ request = EmptyMap
    /\ supplied = EmptyMap
    /\ batch = EmptyMap
    /\ pc = "new"
    /\ err = None
    /\ outputs = <<>>
    /\ OthersIdle

Construct ==
    /\ pc = "new"
    /\ LET st == init(volume_factors)
       IN /\ outputs' = st.outputs
          /\ err' = st.err
          /\ pc' = IF st.err = None THEN "start" ELSE "failed"
    /\ UNCHANGED <<volume_factors, upstream_factors, orig_request, request,
                   supplied, batch, second, trainVars>>

NextCtor == Construct

SpecCtor == InitCtor /\ [][NextCtor]_vars

(***************************************************************************)
(* Two traversals on one node instance: each worker has its own request    *)
(* and batch, and the steps of the two interleave freely                   *)
(***************************************************************************)
\* a prepare that consumes the entries it has handled
SelfAfterPrepareConsuming(vf, req) ==
    SelectSeq(vf, LAMBDA e : e.output \notin DOMAIN req)

\* self.volume_factors after prepare(request): prepare assigns no attribute
\* of self
SelfAfterPrepare(vf, req) == vf

\* self.volume_factors after process(batch, request): process assigns no
\* attribute of self
SelfAfterProcess(vf, b, req) == vf

FirstRequests ==
    UNION {[T -> {Roi(<<0, 0, 0>>, <<4, 4, 4>>)}] : T \in SUBSET VolumeTypes}

SecondRequests ==
    UNION {[T -> {Roi(<<1, 1, 1>>, <<2, 2, 2>>)}] : T \in SUBSET VolumeTypes}

InitTwo ==
    /\ volume_factors \in SingleConfigs
    /\ upstream_factors = <<>>
    /\ orig_request \in FirstRequests
    /\ request = orig_request
    /\ supplied = EmptyMap
    /\ batch = EmptyMap
    /\ pc = "start"
    /\ err = None
    /\ outputs = init(volume_factors).outputs
    /\ \E r \in SecondRequests :
          second = [Idle EXCEPT !.orig_request = r, !.request = r,
                                !.pc = "start"]
    /\ TrainIdle

Prepare2 ==
    /\ second.pc = "start"
    /\ second' = [second EXCEPT !.request = prepare(volume_factors, @),
                                !.pc = "prepared"]
    /\ volume_factors' = SelfAfterPrepare(volume_factors, second.request)
    /\ UNCHANGED <<upstream_factors, orig_request, request, supplied, batch,
                   pc, err, outputs, trainVars>>

Supply2 ==
    /\ second.pc = "prepared"
    /\ \E pad \in 0..MaxPad, r \in BaseResolutions :
          second' = [second EXCEPT
                        !.supplied = Provide(second.request, pad, r),
                        !.batch = Provide(second.request, pad, r),
                        !.pc = "supplied"]
    /\ UNCHANGED <<volume_factors, upstream_factors, orig_request, request,
                   supplied, batch, pc, err, outputs, trainVars>>

Process2 ==
    /\ second.pc = "supplied"
    /\ LET st == process(volume_factors, second.batch, second.orig_request)
       IN second' = [second EXCEPT !.batch = st.batch, !.err = st.err,
                                   !.pc = "done"]
    /\ volume_factors' =
          SelfAfterProcess(volume_factors, second.batch, second.orig_request)
    /\ UNCHANGED <<upstream_factors, orig_request, request, supplied, batch,
                   pc, err, outputs, trainVars>>

NextTwo == Prepare \/ Supply \/ Process \/ Prepare2 \/ Supply2 \/ Process2

SpecTwo == InitTwo /\ [][NextTwo]_vars

(***************************************************************************)
(* Replay: prepare on two equal copies of one request, by two nodes built  *)
(* from the same mapping; the order in which a dict yields its items is    *)
(* not part of the mapping, so the second run may visit the entries in any *)
(* order                                                                   *)
(***************************************************************************)
\* the orders in which volume_factors.items() can yield the entries of vf
Orders(vf) ==
    {[i \in DOMAIN vf |-> vf[p[i]]] :
        p \in {q \in [DOMAIN vf -> DOMAIN vf] :
                  \A i, j \in DOMAIN vf : i # j => q[i] # q[j]}}

InitReplay ==
    /\ volume_factors \in Configs
    /\ upstream_factors = <<>>
    /\ orig_request \in Requests
    /\ request = orig_request
    /\ supplied = EmptyMap
    /\ batch = EmptyMap
    /\ pc = "start"
    /\ err = None
    /\ outputs = init(volume_factors).outputs
    /\ second = [Idle EXCEPT !.orig_request = orig_request,
                             !.request = orig_request, !.pc = "start"]
    /\ TrainIdle

PrepareReplay ==
    /\ second.pc = "start"
    /\ \E vf \in Orders(volume_factors) :
          second' = [second EXCEPT !.request = prepare(vf, @),
                                  !.pc = "prepared"]
    /\ volume_factors' = SelfAfterPrepare(volume_factors, second.request)
    /\ UNCHANGED <<upstream_factors, orig_request, request, supplied, batch,
                   pc, err, outputs, trainVars>>

NextReplay == Prepare \/ PrepareReplay

SpecReplay == InitReplay /\ [][NextReplay]_vars

(***************************************************************************)
(* Train (tensorflow/nodes/train.py): start, then train_step per batch.    *)
(* The session holds the variables of the meta-graph and the gunpowder     *)
(* iteration counter ("basic", what basic_saver covers) and, with a custom *)
(* optimizer, the variables that optimizer_func adds (full_saver covers    *)
(* both).  The counter is kept as an integer.                              *)
(***************************************************************************)
MaxSteps == 4

MaxEvery == 3

MaxRestored == 3

SummaryNames == {"s1", "s2"}

Summaries ==
    {NoSummary, [kind |-> "str", f |-> <<>>]}
        \cup {[kind |-> "dict", f |-> fr] : fr \in [SummaryNames -> 1..MaxEvery]}

\* the latest checkpoint in the checkpoint directory, with or without the
\* variables of a custom optimizer
Checkpoints ==
    {NoCheckpoint}
        \cup {[found |-> TRUE, iteration |-> n, optimizer |-> o] :
                 n \in 1..MaxRestored, o \in BOOLEAN}

\* a session right after tf.Session(...): no variable has a value
FreshSession ==
    [iteration |-> Unset, basic |-> "uninitialized",
     optimizer |-> "uninitialized", log |-> <<>>]

\* session.run(tf.global_variables_initializer()): the counter has a zeros
\* initializer
InitializeAll(tf, custom) ==
    [iteration |-> 0, basic |-> "default",
     optimizer |-> IF custom THEN "default" ELSE "absent",
     log |-> Append(tf.log, "initialize_all")]

\* basic_saver.restore(session, checkpoint)
RestoreBasic(tf, ck) ==
    [tf EXCEPT !.iteration = ck.iteration, !.basic = "restored",
               !.log = Append(@, "restore_basic")]

\* full_saver.restore finds every variable it covers in the checkpoint
FullRestorable(ck, custom) == custom => ck.optimizer

\* full_saver.restore(session, checkpoint), when it succeeds
RestoreFull(tf, ck, custom) ==
    [iteration |-> ck.iteration, basic |-> "restored",
     optimizer |-> IF custom THEN "restored" ELSE "absent",
     log |-> Append(tf.log, "restore_full")]

\* what a full restore that raised NotFoundError can leave behind: any of
\* the variables it does find may or may not have been restored
PartialRestores(tf, ck) ==
    {[tf EXCEPT !.iteration = i, !.basic = b,
                !.log = Append(@, "restore_full: NotFoundError")] :
        i \in {tf.iteration, ck.iteration}, b \in {tf.basic, "restored"}}

\* the basic restore with the initializer run last
RestoreGraphBasicInitLast(tf, ck, custom) ==
    InitializeAll(RestoreBasic(tf, ck), custom)

\* __restore_graph(checkpoint, restore_full=False), lines 296-301
RestoreGraphBasic(tf, ck, custom) ==
    RestoreBasic(InitializeAll(tf, custom), ck)

\* __read_meta_graph, lines 266-288, and the current_step it leaves
ReadMetaGraph(ck, custom, cs, partial) ==
    IF ~ck.found
    THEN [tf |-> InitializeAll(FreshSession, custom), current_step |-> cs]
    ELSE LET tf == IF FullRestorable(ck, custom)
                   THEN RestoreFull(FreshSession, ck, custom)
                   ELSE RestoreGraphBasic(partial, ck, custom)
         IN [tf |-> tf, current_step |-> tf.iteration]

BaseKeys == {"optimizer", "loss", "iteration"}

\* lines 191-196: the keys added to to_compute for the summaries
SummaryKeys(sm, cs) ==
    IF sm.kind = "str" THEN {"summaries"}
    ELSE IF sm.kind = "dict"
    THEN {k \in DOMAIN sm.f : (cs + 1) % sm.f[k] = 0}
    ELSE {}

\* lines 207-215: the keys handed to add_summary, or the exception
AddSummaries(sm, le, it, computed) ==
    IF sm.kind = "none" THEN [written |-> {}, err |-> None]
    ELSE IF sm.kind = "str" /\ (it % le = 0 \/ it = 1)
    THEN [written |-> {"summaries"}, err |-> None]
    ELSE IF sm.kind = "str"
    THEN [written |-> {},
          err |-> [kind |-> "AttributeError", line |-> 213]]
    ELSE LET due == {k \in DOMAIN sm.f : it % sm.f[k] = 0}
         IN IF due \subseteq computed
            THEN [written |-> due, err |-> None]
            ELSE [written |-> due \cap computed,
                  err |-> [kind |-> "KeyError", line |-> 215]]

InitTrain ==
    /\ volume_factors = <<>>
    /\ upstream_factors = <<>>
    /\ orig_request = EmptyMap
    /\ request = EmptyMap
    /\ supplied = EmptyMap
    /\ batch = EmptyMap
    /\ pc = "idle"
    /\ err = None
    /\ outputs = <<>>
    /\ second = Idle
    /\ summary \in Summaries
    /\ log_every \in 1..MaxEvery
    /\ save_every \in 1..MaxEvery
    /\ optimizer_func \in BOOLEAN
    /\ checkpoint \in Checkpoints
    /\ session = NoSession
    /\ current_step = Unset
    /\ to_compute = {}
    /\ written = {}
    /\ saved = <<>>
    /\ batch_iteration = Unset
    /\ start_log = <<>>
    /\ calls = 0
    /\ tpc = "new"
    /\ terr = None

\* Train.start
Start ==
    /\ tpc = "new"
    /\ \E partial \in PartialRestores(FreshSession, checkpoint) :
          LET r == ReadMetaGraph(checkpoint, optimizer_func, current_step,
                                 partial)
          IN /\ session' = [iteration |-> r.tf.iteration,
                            basic |-> r.tf.basic,
                            optimizer |-> r.tf.optimizer]
             /\ start_log' = r.tf.log
             /\ current_step' = r.current_step
    /\ tpc' = "started"
    /\ UNCHANGED <<summary, log_every, save_every, optimizer_func, checkpoint,
                   to_compute, written, saved, batch_iteration, calls, terr>>
    /\ UNCHANGED nodeVars

\* train_step raises at line 195, before the session runs
StepFailsEarly ==
    /\ to_compute' = BaseKeys
    /\ written' = {}
    /\ terr' = [kind |-> "AttributeError", line |-> 195]
    /\ tpc' = "failed"
    /\ UNCHANGED <<session, current_step, batch_iteration, saved, checkpoint>>

\* train_step from session.run on, lines 197-224
StepRuns ==
    LET keys == BaseKeys \cup SummaryKeys(summary, current_step)
        it == session.iteration + 1
        added == AddSummaries(summary, log_every, it, keys)
        save == added.err = None /\ it % save_every = 0
    IN /\ to_compute' = keys
       /\ session' = [iteration |-> it, basic |-> "trained",
                      optimizer |-> IF session.optimizer = "absent"
                                    THEN "absent" ELSE "trained"]
       /\ batch_iteration' = it
       /\ current_step' = it
       /\ written' = added.written
       /\ terr' = added.err
       /\ saved' = IF save THEN Append(saved, it) ELSE saved
       /\ checkpoint' = IF save
                        THEN [found |-> TRUE, iteration |-> it,
                              optimizer |-> optimizer_func]
                        ELSE checkpoint
       /\ tpc' = IF added.err = None THEN "started" ELSE "failed"

\* Train.train_step(batch, request)
TrainStep ==
    /\ tpc = "started"
    /\ calls < MaxSteps
    /\ calls' = calls + 1
    /\ IF summary.kind = "dict" /\ current_step = Unset
       THEN StepFailsEarly
       ELSE StepRuns
    /\ UNCHANGED <<summary, log_every, save_every, optimizer_func, start_log>>
    /\ UNCHANGED nodeVars

NextTrain == Start \/ TrainStep

SpecTrain == InitTrain /\ [][NextTrain]_vars

(***************************************************************************)
(* Properties                                                              *)
(***************************************************************************)
BRoi444 == Roi(<<0, 0, 0>>, <<4, 4, 4>>)

AToB2 == <<Entry("A", Scalar(2), "B")>>

Inputs(vf) == {vf[i].input : i \in DOMAIN vf}

Outputs(vf) == {vf[i].output : i \in DOMAIN vf}

\* no volume type is both read and produced by the node
Plain(vf) == Inputs(vf) \cap Outputs(vf) = {}

\* C1: after prepare on a copy of the request, a batch from upstream that
\* contains every prepared ROI, and process with the original request,
\* process has completed and every volume type in the batch is a key of the
\* request whose ROI equals batch[key].roi -- stated for the nodes that
\* produce none of their own inputs and the traversals in which upstream
\* returned exactly the prepared ROIs, so that the only ROIs that differ
\* from the request are the ones the node itself enlarged
C1_ProcessRestoresEveryRoi ==
    (/\ pc = "done"
     /\ Plain(volume_factors)
     /\ \A t \in DOMAIN supplied : supplied[t].roi = request[t])
        => /\ err = None
           /\ \A t \in DOMAIN batch :
                 t \in DOMAIN orig_request /\ batch[t].roi = orig_request[t]

\* C4: once prepare has returned, no output type of volume_factors is a
\* key of the request
C4_NoOutputKeyAfterPrepare ==
    pc # "start" =>
        \A i \in DOMAIN volume_factors :
            volume_factors[i].output \notin DOMAIN request

\* C5 as stated: {A: (2, B)} and the request {B: ROI((0,0,0), (4,4,4))}
\* are prepared to exactly {A: ROI((-1,-1,-1), (8,8,8))}
C5_PreparedOffsetMinusOne ==
    (pc = "prepared" /\ volume_factors = AToB2
        /\ orig_request = [t \in {"B"} |-> BRoi444])
        => request = [t \in {"A"} |-> Roi(<<-1, -1, -1>>, <<8, 8, 8>>)]

\* C5 (amended): {A: (2, B)} and the request {B: ROI((0,0,0), (4,4,4))}
\* are prepared to exactly {A: ROI((-2,-2,-2), (8,8,8))}: B is removed, the
\* shape is (8,8,8) and the center stays (2,2,2)
C5_PreparedOffsetMinusTwo ==
    (pc = "prepared" /\ volume_factors = AToB2
        /\ orig_request = [t \in {"B"} |-> BRoi444])
        => /\ request = [t \in {"A"} |-> Roi(<<-2, -2, -2>>, <<8, 8, 8>>)]
           /\ \A d \in 1..3 :
                 request["A"].offset[d] + request["A"].shape[d] \div 2 = 2

C5_Witness ==
    /\ pc = "prepared"
    /\ volume_factors = AToB2
    /\ orig_request = [t \in {"B"} |-> BRoi444]
    /\ DOMAIN request = {"A"}

\* C6: the ROI s that __scale_roi computes from r and f has the shape
\* r.shape * f and the center of r, center(x) = x.offset + x.shape / 2 in
\* integer arithmetic (here s is what prepare requests of A for {B: r})
C6_ScaleKeepsCenter ==
    pc = "prepared" =>
        LET r == orig_request["B"]
            f == volume_factors[1].f
            s == request["A"]
        IN \A d \in DOMAIN r.offset :
              /\ s.shape[d] = r.shape[d] * FactorAt(f, d)
              /\ s.offset[d] + s.shape[d] \div 2
                    = r.offset[d] + r.shape[d] \div 2

\* an odd shape at a negative offset, scaled by a per-dimension factor
C6_Witness ==
    /\ pc = "prepared"
    /\ volume_factors[1].f = Tuple(<<2, 3>>)
    /\ orig_request["B"] = Roi(<<-2, 1>>, <<3, 1>>)
    /\ request["A"].shape = <<6, 3>>

\* the state of process when its first loop arrives at entry i
Reached(i) ==
    ProcessLoop([batch |-> supplied, err |-> None],
                SubSeq(volume_factors, 1, i - 1), orig_request, 1)

\* entry i is handled: its output is requested, no earlier entry has raised
\* and the batch holds its input
Handled(i) ==
    /\ volume_factors[i].output \in DOMAIN orig_request
    /\ Reached(i).err = None
    /\ volume_factors[i].input \in DOMAIN Reached(i).batch

\* the ROI entry i needs of its input
Needed(i) ==
    ScaleRoi(orig_request[volume_factors[i].output], volume_factors[i].f)

\* C2: when the request holds an input type A (ROI a) that upstream provides
\* and its output type B (ROI b), and prepare has enlarged the upstream
\* request for A to union(a, scaled b), then once process has returned
\* batch[A] has the ROI a and holds exactly the cells of a of the supplied
\* array
C2_InputRestoredToRequest ==
    (pc = "done" /\ err = None) =>
        \A i \in DOMAIN volume_factors :
            LET e == volume_factors[i]
            IN (/\ e.input \in DOMAIN orig_request
                /\ e.output \in DOMAIN orig_request
                /\ e.input \notin Outputs(volume_factors)
                /\ e.input \in DOMAIN request
                /\ request[e.input] = Union(orig_request[e.input], Needed(i)))
                  => /\ batch[e.input].roi = orig_request[e.input]
                     /\ batch[e.input].data.src = e.input
                     /\ \A d \in DOMAIN orig_request[e.input].offset :
                           batch[e.input].data.axes[d] =
                              [j \in 1..orig_request[e.input].shape[d] |->
                                  orig_request[e.input].offset[d] + j - 1]

\* A and B both requested, the batch from upstream padded beyond the union
C2_Witness ==
    /\ pc = "done"
    /\ err = None
    /\ volume_factors = AToB2
    /\ DOMAIN orig_request = {"A", "B"}
    /\ request["A"] # orig_request["A"]
    /\ supplied["A"].roi # request["A"]
    /\ batch["A"].roi = orig_request["A"]

\* what one handled entry e leaves for its input type, from the request
\* before it
MergeStep(before, after, e) ==
    (e.output \in DOMAIN before /\ e.input # e.output)
        => /\ e.input \in DOMAIN after
           /\ after[e.input] =
                 IF e.input \in DOMAIN before
                 THEN Union(before[e.input], ScaleRoi(before[e.output], e.f))
                 ELSE ScaleRoi(before[e.output], e.f)

\* C3: a prepare that handles a requested output type leaves for the input
\* type union(existing, scaled) if the input type had an entry and scaled
\* otherwise; and when two chained nodes derive B and C from the same input
\* type A and both are requested, then after both prepares request[A] is the
\* union of the two scaled ROIs (merged with the ROI requested of A itself,
\* if there is one)
C3_MergeIntoInput ==
    LET e1 == volume_factors[1]
        e2 == upstream_factors[1]
        mid == prepare(volume_factors, orig_request)
    IN /\ pc = "prepared" => MergeStep(orig_request, request, e1)
       /\ pc = "prepared2" => MergeStep(mid, request, e2)
       /\ (/\ pc = "prepared2"
           /\ e1.input = e2.input
           /\ e1.output # e2.output
           /\ e1.input \notin {e1.output, e2.output}
           /\ {e1.output, e2.output} \subseteq DOMAIN orig_request)
             => LET both == Union(ScaleRoi(orig_request[e1.output], e1.f),
                                  ScaleRoi(orig_request[e2.output], e2.f))
                IN request[e1.input] =
                      IF e1.input \in DOMAIN orig_request
                      THEN Union(orig_request[e1.input], both)
                      ELSE both

\* B and C requested with different ROIs, A not requested, both nodes done
C3_Witness ==
    /\ pc = "prepared2"
    /\ volume_factors[1].input = upstream_factors[1].input
    /\ volume_factors[1].output # upstream_factors[1].output
    /\ volume_factors[1].input \notin DOMAIN orig_request
    /\ DOMAIN orig_request =
          {volume_factors[1].output, upstream_factors[1].output}
    /\ orig_request[volume_factors[1].output]
          # orig_request[upstream_factors[1].output]
    /\ DOMAIN request = {volume_factors[1].input}
    /\ request[volume_factors[1].input]
          # ScaleRoi(orig_request[volume_factors[1].output],
                     volume_factors[1].f)
    /\ request[volume_factors[1].input]
          # ScaleRoi(orig_request[upstream_factors[1].output],
                     upstream_factors[1].f)

\* C7: for every entry (A, f, B) with B requested, if the A volume that
\* process reads covers the scaled ROI, then after process the batch holds
\* B with the ROI request[B] and the resolution of that A volume times f
C7_OutputRoiAndResolution ==
    pc = "done" =>
        \A i \in DOMAIN volume_factors :
            LET e == volume_factors[i]
            IN (Handled(i) /\ Contains(Reached(i).batch[e.input].roi, Needed(i)))
                  => /\ e.output \in DOMAIN batch
                     /\ batch[e.output].roi = orig_request[e.output]
                     /\ \A d \in DOMAIN batch[e.output].resolution :
                           batch[e.output].resolution[d] =
                              Reached(i).batch[e.input].resolution[d]
                                 * FactorAt(e.f, d)

\* only B requested, from an A of resolution 4, by a per-dimension factor
C7_Witness ==
    /\ pc = "done"
    /\ volume_factors = <<Entry("A", Tuple(<<1, 2, 3>>), "B")>>
    /\ DOMAIN orig_request = {"B"}
    /\ supplied["A"].resolution = <<4, 4, 4>>
    /\ "B" \in DOMAIN batch
    /\ batch["B"].resolution = <<4, 8, 12>>

\* C8: the array of the output volume is the decimation of the input: its
\* shape is request[B].shape and its element i is the element of the A array
\* at the absolute position scaled.offset + i * f
C8_OutputIsDecimation ==
    pc = "done" =>
        \A i \in DOMAIN volume_factors :
            LET e == volume_factors[i]
                in == Reached(i).batch[e.input]
            IN (Handled(i) /\ Contains(in.roi, Needed(i)))
                  => /\ e.output \in DOMAIN batch
                     /\ batch[e.output].data.src = in.data.src
                     /\ \A d \in DOMAIN Needed(i).offset :
                           /\ Len(batch[e.output].data.axes[d])
                                 = orig_request[e.output].shape[d]
                           /\ \A j \in 1..orig_request[e.output].shape[d] :
                                 batch[e.output].data.axes[d][j] =
                                    in.data.axes[d][
                                       Needed(i).offset[d]
                                          + (j - 1) * FactorAt(e.f, d)
                                          - in.roi.offset[d] + 1]

\* B cut out of a padded A supplied by upstream: cell 2 of axis 3 of B is
\* the cell of A at scaled.offset + 1 * 3
C8_Witness ==
    /\ pc = "done"
    /\ volume_factors = <<Entry("A", Tuple(<<1, 2, 3>>), "B")>>
    /\ DOMAIN orig_request = {"B"}
    /\ supplied["A"].roi # request["A"]
    /\ "B" \in DOMAIN batch
    /\ batch["B"].data.axes[3][2] = request["A"].offset[3] + 3

\* C9: if the A volume that process reads for a requested output does not
\* contain the scaled ROI, process fails with the containment violation of
\* line 79 and leaves the batch as it was when it came to that entry: no
\* output is inserted for it
C9_ContainmentViolation ==
    pc = "done" =>
        \A i \in DOMAIN volume_factors :
            LET e == volume_factors[i]
            IN (Handled(i) /\ ~Contains(Reached(i).batch[e.input].roi, Needed(i)))
                  => /\ err = [kind |-> "ContainmentViolation", line |-> 79]
                     /\ batch = Reached(i).batch

\* upstream returned an A that misses a cell of the scaled ROI of B
C9_Witness ==
    /\ pc = "done"
    /\ volume_factors = AToB2
    /\ DOMAIN orig_request = {"B"}
    /\ supplied["A"].roi = Shrunk(request["A"])
    /\ err.kind = "ContainmentViolation"
    /\ "B" \notin DOMAIN batch

NumberOrTupleOfNumbers(f) ==
    PyType(f) \in {"int", "float", "tuple of int"}

\* an output volume type appears in more than one entry
OutputReused(vf) ==
    \E i, j \in DOMAIN vf : i # j /\ vf[i].output = vf[j].output

\* C11: constructing a node fails with a ConfigurationError if an output type
\* appears in more than one entry or if the factor of an entry is neither a
\* number nor a tuple of numbers; a successfully constructed node has an
\* outputs list with each output type once and one element per entry
C11_ConstructionRejects ==
    pc \in {"start", "failed"}
        => /\ (\/ OutputReused(volume_factors)
               \/ \E i \in DOMAIN volume_factors :
                     ~NumberOrTupleOfNumbers(volume_factors[i].f))
              => pc = "failed" /\ err.kind = "ConfigurationError"
           /\ pc = "start"
              => /\ Len(outputs) = Len(volume_factors)
                 /\ \A i, j \in DOMAIN outputs :
                       i # j => outputs[i] # outputs[j]
                 /\ {outputs[i] : i \in DOMAIN outputs}
                       = Outputs(volume_factors)

\* what does hold of construction: it fails exactly when an output type is
\* reused or a factor is neither a number nor a tuple (of anything), and the
\* outputs list of a constructed node is as C11 says
C11_ConstructionRejectsNonTuples ==
    pc \in {"start", "failed"}
        => /\ pc = "failed"
              <=> \/ OutputReused(volume_factors)
                  \/ \E i \in DOMAIN volume_factors :
                        ~(IsNumber(volume_factors[i].f)
                            \/ IsTuple(volume_factors[i].f))
           /\ pc = "start"
              => /\ Len(outputs) = Len(volume_factors)
                 /\ \A i, j \in DOMAIN outputs :
                       i # j => outputs[i] # outputs[j]

\* the request and batch a traversal has when it runs alone on a node
\* configured with vf, given its request and what upstream returned for it
Alone(vf, tr) ==
    /\ tr.pc # "start" => tr.request = prepare(vf, tr.orig_request)
    /\ tr.pc = "done"
          => /\ tr.batch = process(vf, tr.supplied, tr.orig_request).batch
             /\ tr.err = process(vf, tr.supplied, tr.orig_request).err

\* the first traversal, as a record like the second
First ==
    [orig_request |-> orig_request, request |-> request,
     supplied |-> supplied, batch |-> batch, pc |-> pc, err |-> err]

\* C12: no step of prepare or process of either traversal changes a field of
\* the node (volume_factors, outputs), and in every interleaving each
\* traversal has the request and the batch it has when it runs alone
C12_TraversalsIndependent ==
    /\ [][volume_factors' = volume_factors /\ outputs' = outputs]_vars
    /\ [](Alone(volume_factors, First) /\ Alone(volume_factors, second))

\* both traversals have run through the node, each with requested output
\* types, on different requests
C12_Witness ==
    /\ pc = "done" /\ err = None
    /\ second.pc = "done" /\ second.err = None
    /\ \E i \in DOMAIN volume_factors :
          /\ volume_factors[i].output \in DOMAIN orig_request
          /\ volume_factors[i].output \in DOMAIN second.orig_request
          /\ volume_factors[i].output \in DOMAIN batch
          /\ volume_factors[i].output \in DOMAIN second.batch
          /\ batch[volume_factors[i].output]
                # second.batch[volume_factors[i].output]

\* C13: prepare run on two equal copies of a request with the same
\* configuration mapping yields equal requests, whatever the order in which
\* the entries are visited, and changes nothing but the request it was given
C13_PrepareReplayEqual ==
    (pc = "prepared" /\ second.pc = "prepared")
        => /\ request = second.request
           /\ second.orig_request = orig_request
           /\ outputs = init(volume_factors).outputs

\* what does hold of replay: for the nodes that produce none of their own
\* inputs the two results are equal in every visiting order, and when two
\* orders differ one of the results still holds an output type of the node
C13_PlainReplayEqual ==
    (pc = "prepared" /\ second.pc = "prepared")
        => /\ Plain(volume_factors) => request = second.request
           /\ request # second.request
                => \E t \in Outputs(volume_factors) :
                      t \in DOMAIN request \/ t \in DOMAIN second.request

\* C16: when prepare ran on a copy of the request and the supplied batch
\* holds, for every key of the prepared request, a volume whose ROI contains
\* the prepared ROI, process with the original request raises no
\* ContainmentViolation, neither at line 79 nor at line 113
C16_NoContainmentFailure ==
    (/\ pc = "done"
     /\ \A t \in DOMAIN request :
           t \in DOMAIN supplied /\ Contains(supplied[t].roi, request[t]))
        => err.kind # "ContainmentViolation"

\* what does hold: no containment failure for the nodes in which no type is
\* both input and output, and never one at line 113
C16_PlainNoContainmentFailure ==
    (/\ pc = "done"
     /\ \A t \in DOMAIN request :
           t \in DOMAIN supplied /\ Contains(supplied[t].roi, request[t]))
        => /\ Plain(volume_factors) => err.kind # "ContainmentViolation"
           /\ err # [kind |-> "ContainmentViolation", line |-> 113]

\* a volume type prepare has no business with
UnrelatedToPrepare(t) ==
    t \notin Inputs(volume_factors) \cup Outputs(volume_factors)

\* a volume type process has no business with: no configured input, and no
\* output of an entry whose output is requested
UnrelatedToProcess(t) ==
    /\ t \notin Inputs(volume_factors)
    /\ ~(t \in Outputs(volume_factors) /\ t \in DOMAIN orig_request)

\* C17: prepare leaves every request entry of a type that is neither a
\* configured input nor a configured output as it was, and the whole request
\* as it was when no configured output is requested; process does not modify
\* the request, and leaves every batch volume as supplied whose type is
\* neither a configured input nor the output of a requested pair
C17_FrameConditions ==
    /\ [][orig_request' = orig_request]_vars
    /\ [](pc # "start"
            => /\ \A t \in VolumeTypes :
                     UnrelatedToPrepare(t)
                        => /\ t \in DOMAIN request <=> t \in DOMAIN orig_request
                           /\ t \in DOMAIN request
                                => request[t] = orig_request[t]
               /\ Outputs(volume_factors) \cap DOMAIN orig_request = {}
                     => request = orig_request)
    /\ [](pc = "done"
            => \A t \in VolumeTypes :
                  UnrelatedToProcess(t)
                     => /\ t \in DOMAIN batch <=> t \in DOMAIN supplied
                        /\ t \in DOMAIN batch => batch[t] = supplied[t])

\* a node has handled a requested pair, and the batch holds a volume of a
\* type it is not configured for, supplied larger than requested and left
\* that way
C17_Witness ==
    /\ pc = "done" /\ err = None
    /\ \E i \in DOMAIN volume_factors :
          /\ volume_factors[i].output \in DOMAIN orig_request
          /\ volume_factors[i].output \in DOMAIN batch
    /\ \E t \in DOMAIN orig_request :
          /\ UnrelatedToPrepare(t)
          /\ request[t] = orig_request[t]
          /\ supplied[t].roi # orig_request[t]
          /\ batch[t] = supplied[t]

\* C14: in every train_step call after start the iteration counter grows by
\* exactly one, a checkpoint is saved during the call if and only if
\* batch.iteration is a multiple of save_every, and the name of the
\* checkpoint carries that iteration
C14_CounterAndCheckpoints ==
    [][calls' = calls + 1
        => /\ session'.iteration = session.iteration + 1
           /\ batch_iteration' = session'.iteration
           /\ IF batch_iteration' % save_every = 0
              THEN saved' = Append(saved, batch_iteration')
              ELSE saved' = saved]_vars

\* what does hold: C14 for the calls that return
C14_ReturningCalls ==
    [][(calls' = calls + 1 /\ terr' = None)
        => /\ session'.iteration = session.iteration + 1
           /\ batch_iteration' = session'.iteration
           /\ IF batch_iteration' % save_every = 0
              THEN saved' = Append(saved, batch_iteration')
              ELSE saved' = saved]_vars

\* C15: with summary a tensor name and any log_every >= 1, every train_step
\* completes without error and writes the summary exactly when
\* batch.iteration is a multiple of log_every or is 1
C15_StringSummaryLogs ==
    (summary.kind = "str" /\ calls > 0)
        => /\ terr = None
           /\ written = IF batch_iteration % log_every = 0
                            \/ batch_iteration = 1
                        THEN {"summaries"} ELSE {}

\* what does hold: C15 when every iteration is a logging iteration
C15_LogEveryOne ==
    (summary.kind = "str" /\ calls > 0 /\ log_every = 1)
        => terr = None /\ written = {"summaries"}

\* C18: with summary a dict, in every train_step the summaries written after
\* the session run are exactly the summaries added to to_compute before it,
\* from the first step after start, with or without a restored checkpoint
C18_WrittenEqualsComputed ==
    (summary.kind = "dict" /\ calls > 0)
        => /\ terr = None
           /\ written = to_compute \ BaseKeys

\* what does hold: C18 after a start that restored a checkpoint
C18_AfterRestore ==
    (summary.kind = "dict" /\ calls > 0 /\ start_log # <<"initialize_all">>)
        => /\ terr = None
           /\ written = to_compute \ BaseKeys
           /\ current_step = batch_iteration

NotFoundPath ==
    <<"restore_full: NotFoundError", "initialize_all", "restore_basic">>

\* C19: start takes exactly one initialisation path: without a checkpoint
\* it default-initialises all variables; with one it tries the full restore
\* and only after a NotFoundError default-initialises all variables and then
\* restores the basic ones, in that order; afterwards every variable, the
\* iteration counter included, has a value, and after a restore current_step
\* is the restored iteration
C19_StartInitialises ==
    (tpc = "started" /\ calls = 0)
        => /\ start_log \in {<<"initialize_all">>, <<"restore_full">>,
                              NotFoundPath}
           /\ start_log = <<"initialize_all">> <=> ~checkpoint.found
           /\ ~checkpoint.found
                => /\ session.iteration = 0
                   /\ session.basic = "default"
                   /\ session.optimizer \in {"default", "absent"}
           /\ start_log = NotFoundPath
                => /\ optimizer_func /\ ~checkpoint.optimizer
                   /\ session.basic = "restored"
                   /\ session.optimizer = "default"
           /\ start_log = <<"restore_full">>
                => /\ session.basic = "restored"
                   /\ session.optimizer \in {"restored", "absent"}
           /\ session.iteration # Unset
           /\ session.basic # "uninitialized"
           /\ session.optimizer # "uninitialized"
           /\ checkpoint.found
                => /\ session.iteration = checkpoint.iteration
                   /\ current_step = checkpoint.iteration

\* start has fallen back to the basic restore of a checkpoint that lacks the
\* variables of the custom optimizer
C19_Witness ==
    /\ tpc = "started" /\ calls = 0
    /\ start_log = NotFoundPath
    /\ checkpoint.found /\ checkpoint.iteration > 0
    /\ session.iteration = checkpoint.iteration
    /\ current_step = checkpoint.iteration

====
